---- MODULE Spec2Model ----
(***************************************************************************)
(* A model of the Sony S-Link / Control-A1 protocol engine, class          *)
(* SonyDevice of src/media_player.py: the command sequencer (update,       *)
(* turn_on, ..., select_source), the link connection, the response buffer, *)
(* the frame decoder and the response dispatcher, with the host's threads  *)
(* calling the public operations under the device lock.                    *)
(*                                                                         *)
(* Text is modelled as Python has it: a received line is a sequence of     *)
(* characters (one-character strings), a decoded frame a sequence of bytes *)
(* (0..255), a decoded name (str) a sequence of code points.  Commands     *)
(* written to the link are strings.  Python's None is the empty tuple and  *)
(* a value v that may be None is <<v>>.                                    *)
(***************************************************************************)
EXTENDS Integers, Sequences, FiniteSets, TLC

(***************************************************************************)
(* Constants of the program                                                *)
(***************************************************************************)
COMMAND_PREFIX_AMP == "c0"
COMMAND_PREFIX_NEW_AMP == "70"

COMMAND_STATUS_SOURCE == "0f"
COMMAND_DEVICE_NAME == "6a"
COMMAND_SOURCE_NAME == "48"
COMMAND_MUTE == "06"
COMMAND_UNMUTE == "07"
COMMAND_VOLUME_UP == "14"
COMMAND_VOLUME_DOWN == "15"
COMMAND_POWER_ON == "2e"
COMMAND_POWER_OFF == "2f"
COMMAND_SELECT_SOURCE == "50"
COMMAND_QUERY_INPUT_MODE == "43"
COMMAND_INPUT_MODE == "83"

\* INPUT_MODES = {0x0: "auto", 0x1: "optical", 0x2: "coaxial", 0x4: "analog"},
\* in the dictionary's (insertion) order.
INPUT_MODES == << <<0, "auto">>, <<1, "optical">>, <<2, "coaxial">>, <<4, "analog">> >>

VOLUME_STEPS == 2

STATE_UNKNOWN == "unknown"
STATE_ON == "on"
STATE_OFF == "off"

None == << >>
Some(v) == <<v>>

LF == "\n"

\* "STR-DE635" as code points
STR_DE635 == <<83, 84, 82, 45, 68, 69, 54, 51, 53>>
\* "STR-DB840"
STR_DB840 == <<83, 84, 82, 45, 68, 66, 56, 52, 48>>
\* "STR-DB2000"
STR_DB2000 == <<83, 84, 82, 45, 68, 66, 50, 48, 48, 48>>

\* the code points of an input mode's name, and of the separator " | "
\* (source_name + " | " + input_mode)
ModeText(m) ==
    CASE m = "auto" -> <<97, 117, 116, 111>>
      [] m = "optical" -> <<111, 112, 116, 105, 99, 97, 108>>
      [] m = "coaxial" -> <<99, 111, 97, 120, 105, 97, 108>>
      [] m = "analog" -> <<97, 110, 97, 108, 111, 103>>
SepText == <<32, 124, 32>>

(***************************************************************************)
(* Frame codec                                                             *)
(***************************************************************************)
\* string.hexdigits = "0123456789abcdefABCDEF"
hexdigits ==
    {"0", "1", "2", "3", "4", "5", "6", "7", "8", "9",
     "a", "b", "c", "d", "e", "f", "A", "B", "C", "D", "E", "F"}

LowerHex == <<"0", "1", "2", "3", "4", "5", "6", "7", "8", "9",
              "a", "b", "c", "d", "e", "f">>
UpperHex == <<"0", "1", "2", "3", "4", "5", "6", "7", "8", "9",
              "A", "B", "C", "D", "E", "F">>

\* the value of one hex character, as int(c, 16) gives it
HexVal(c) ==
    CHOOSE v \in 0..15 : LowerHex[v + 1] = c \/ UpperHex[v + 1] = c

\* "%.2d" % n: at least two decimal digits
Dec2(n) ==
    IF n < 100
    THEN LowerHex[(n \div 10) + 1] \o LowerHex[(n % 10) + 1]
    ELSE LowerHex[(n \div 100) + 1] \o LowerHex[((n \div 10) % 10) + 1]
                                   \o LowerHex[(n % 10) + 1]

\* "%.2x" % n: at least two lower-case hex digits (n < 256 here)
Hex2(n) == LowerHex[(n \div 16) + 1] \o LowerHex[(n % 16) + 1]

\* all(c in string.hexdigits for c in response.decode())
AllHex(line) == \A i \in 1..Len(line) : line[i] \in hexdigits

\* a decoding that stops at the last whole pair of characters
DecodeHexPairs(line) ==
    [i \in 1..(Len(line) \div 2) |->
        16 * HexVal(line[2 * i - 1]) + HexVal(line[2 * i])]
\* [int(response[x:x+2], 16) for x in range(0, len(response), 2)]:
\* one byte per slice of two characters; the last slice of an odd-length
\* line holds one character.
DecodeHex(line) ==
    [i \in 1..((Len(line) + 1) \div 2) |->
        IF 2 * i <= Len(line)
        THEN 16 * HexVal(line[2 * i - 1]) + HexVal(line[2 * i])
        ELSE HexVal(line[2 * i - 1])]

\* Python's str.strip() strips the characters for which str.isspace() holds;
\* of the code points below 256 these are:
Whitespace == {9, 10, 11, 12, 13, 28, 29, 30, 31, 32, 133, 160}

RECURSIVE RStrip(_, _)
RStrip(s, drop) ==
    IF s # << >> /\ s[Len(s)] \in drop THEN RStrip(SubSeq(s, 1, Len(s) - 1), drop)
    ELSE s

RECURSIVE LStrip(_, _)
LStrip(s, drop) ==
    IF s # << >> /\ s[1] \in drop THEN LStrip(Tail(s), drop) ELSE s

\* bytes(data).decode('iso-8859-1').rstrip('\0').strip(): ISO-8859-1 maps
\* the byte b to the code point b.
parse_sony_string(data) == LStrip(RStrip(RStrip(data, {0}), Whitespace), Whitespace)

\* response[i:] of a Python list (0-based i)
From(s, i) == SubSeq(s, i + 1, Len(s))

(***************************************************************************)
(* Response buffer and dispatcher.  `self` is the record of the fields of  *)
(* a SonyDevice; `raised` is None, or the exception a statement raised.    *)
(***************************************************************************)
\* a byte that is no valid UTF-8: response.decode() raises on it
NonUtf8 == "\\xff"

Raise(self, exc) == [self EXCEPT !.raised = Some(exc)]

\* a split decided by the source id alone, whatever the device
should_split_any_device(self, source_id) == source_id = Some(25)
\* _should_split_source_by_input_mode(source_id); source_id may be None
should_split_source_by_input_mode(self, source_id) ==
    self.device_name = Some(STR_DE635) /\ source_id = Some(25)

\* the index of the first source with this id and input mode, or 0
FindSource(sources, source_id, input_mode) ==
    LET hits == {i \in 1..Len(sources) :
                    sources[i].id = source_id /\ sources[i].input_mode = input_mode}
    IN  IF hits = {} THEN 0 ELSE CHOOSE i \in hits : \A j \in hits : i <= j

\* an add_or_update_source without the search for the pair
add_or_update_source_append(self, source_id, source_name, input_mode) ==
    IF self.raised # None THEN self
    ELSE [self EXCEPT !.available_sources =
            Append(@, [id |-> source_id, input_mode |-> input_mode,
                       name |-> source_name])]
\* add_or_update_source: Source is a namedtuple, so the assignment
\* source.name = source_name raises AttributeError; a new source is appended.
add_or_update_source(self, source_id, source_name, input_mode) ==
    IF self.raised # None THEN self
    ELSE IF FindSource(self.available_sources, source_id, input_mode) # 0
    THEN Raise(self, "AttributeError")
    ELSE [self EXCEPT !.available_sources =
            Append(@, [id |-> source_id, input_mode |-> input_mode,
                       name |-> source_name])]

\* the INPUT_MODES entry of a code, or 0
ModeIndex(code) ==
    LET hits == {i \in 1..Len(INPUT_MODES) : INPUT_MODES[i][1] = code}
    IN  IF hits = {} THEN 0 ELSE CHOOSE i \in hits : TRUE

\* the marker check of a dispatcher that knows 0xc8 only
IsMarkerLegacy(b) == b = 200
IsMarker(b) == b \in {200, 120}    \* [0xc8, 0x78]

\* the body of the dispatch loop from the decoded bytes on (rb is
\* response_bytes)
handle_response_bytes(self, rb) ==
    IF Len(rb) = 0 THEN Raise(self, "IndexError")               \* response_bytes[0]
    ELSE IF ~IsMarker(rb[1]) THEN self                           \* unhandled
    ELSE IF Len(rb) < 2 THEN Raise(self, "IndexError")          \* response_bytes[1]
    ELSE IF rb[2] = 112 THEN                                     \* 0x70
        IF Len(rb) = 6
        THEN [self EXCEPT
                !.power_state = IF rb[5] % 2 = 1 THEN STATE_ON ELSE STATE_OFF,
                !.muted = ((rb[5] \div 2) % 2 = 1),
                !.active_source_id = Some(rb[3])]
        ELSE self
    ELSE IF rb[2] = 106 THEN                                     \* 0x6a
        IF Len(rb) = 16
        THEN [self EXCEPT !.device_name = Some(parse_sony_string(From(rb, 2)))]
        ELSE self
    ELSE IF rb[2] = 72 THEN                                      \* 0x48
        IF Len(rb) = 16
        THEN LET source_id == rb[3]
                 source_name == parse_sony_string(From(rb, 3))
             IN  IF should_split_source_by_input_mode(self, Some(source_id))
                 THEN LET a == add_or_update_source(self, source_id, source_name,
                                                    Some("auto"))
                          b == add_or_update_source(a, source_id,
                                  source_name \o SepText \o ModeText("analog"),
                                  Some("analog"))
                          c == add_or_update_source(b, source_id,
                                  source_name \o SepText \o ModeText("coaxial"),
                                  Some("coaxial"))
                      IN  add_or_update_source(c, source_id,
                                  source_name \o SepText \o ModeText("optical"),
                                  Some("optical"))
                 ELSE add_or_update_source(self, source_id, source_name, None)
        ELSE self
    ELSE IF rb[2] = 67 THEN                                      \* 0x43
        IF Len(rb) = 4
        THEN IF ModeIndex(rb[3]) = 0 THEN Raise(self, "KeyError")
             ELSE [self EXCEPT !.input_mode = Some(INPUT_MODES[ModeIndex(rb[3])][2])]
        ELSE self
    ELSE self                                                    \* unhandled

\* the body of the dispatch loop for one line taken from the backlog; the
\* bytes decoded last are kept in response_bytes
handle_response(self, response) ==
    IF \E i \in 1..Len(response) : response[i] = NonUtf8
    THEN Raise(self, "UnicodeDecodeError")
    ELSE IF ~AllHex(response) THEN self
    ELSE handle_response_bytes(
            [self EXCEPT !.response_bytes = Some(DecodeHex(response))],
            DecodeHex(response))

\* a search for the last line break (rfind) instead of the first
FindLastLF(buf) ==
    LET hits == {i \in 1..Len(buf) : buf[i] = LF}
    IN  IF hits = {} THEN 0 ELSE CHOOSE i \in hits : \A j \in hits : i >= j
\* self._response_buffer.find(b'\n'), 1-based; 0 when there is none
FindLF(buf) ==
    LET hits == {i \in 1..Len(buf) : buf[i] = LF}
    IN  IF hits = {} THEN 0 ELSE CHOOSE i \in hits : \A j \in hits : i <= j

\* the second loop of _read_sony_response: take lines from the backlog and
\* dispatch them until none is complete, or until one raises; frames keeps
\* the lines taken, in the order they were taken
RECURSIVE dispatch_lines(_)
dispatch_lines(self) ==
    LET pos == FindLF(self.response_buffer) IN
    IF pos = 0 THEN self
    ELSE LET response == SubSeq(self.response_buffer, 1, pos - 1)
             rest == SubSeq(self.response_buffer, pos + 1, Len(self.response_buffer))
             after == handle_response([self EXCEPT !.response_buffer = rest,
                                                   !.frames = Append(@, response)],
                                      response)
         IN  IF after.raised # None THEN after ELSE dispatch_lines(after)

\* _read_sony_response: the first loop drains what the link holds (input),
\* the second dispatches the complete lines
read_sony_response(self, input) ==
    dispatch_lines([self EXCEPT !.response_buffer = @ \o input, !.reads = @ + 1])

\* _check_arduino_connection: the open succeeds or raises OSError (openOk);
\* a successful open is followed by the settle delay
check_arduino_connection(self, openOk) ==
    IF self.arduino THEN self
    ELSE IF openOk THEN [self EXCEPT !.arduino = TRUE, !.settles = @ + 1]
    ELSE [self EXCEPT !.open_failures = @ + 1]

\* a _send_sony_command that goes on after a failed open
send_sony_command_unchecked(self, by, command, expect_response, openOk, input) ==
    IF self.raised # None THEN self
    ELSE LET s == check_arduino_connection(self, openOk)
             w == [s EXCEPT !.wire = Append(@,
                          [by |-> by, line |-> s.device_command_prefix \o command])]
         IN  IF expect_response THEN read_sony_response(w, input) ELSE w
\* _send_sony_command(command, expect_response): nothing is written when the
\* link is not open; by is the calling thread (kept with the written line)
send_sony_command(self, by, command, expect_response, openOk, input) ==
    IF self.raised # None THEN self
    ELSE LET s == check_arduino_connection(self, openOk) IN
         IF ~s.arduino THEN s
         ELSE LET w == [s EXCEPT !.wire = Append(@,
                          [by |-> by, line |-> s.device_command_prefix \o command])]
              IN  IF expect_response THEN read_sony_response(w, input) ELSE w

\* _get_active_source: the first source that matches, or None
get_active_source(self) ==
    LET hits == {i \in 1..Len(self.available_sources) :
                    /\ Some(self.available_sources[i].id) = self.active_source_id
                    /\ \/ self.available_sources[i].input_mode = None
                       \/ self.available_sources[i].input_mode = self.input_mode}
    IN  IF hits = {} THEN None
        ELSE Some(self.available_sources[CHOOSE i \in hits : \A j \in hits : i <= j])

(***************************************************************************)
(* The environment: the host's threads, the serial link and the device.    *)
(***************************************************************************)
\* the host threads that call the public operations
NumThreads == 2
Threads == 1..NumThreads
NoThread == 0

\* how many non-empty inputs an arbitrary device delivers in one behaviour
MaxInbound == 2
\* the same, where several threads call
MaxInboundThreads == 1

\* the hex text of a frame, as the bridge prints it, with its terminator
RECURSIVE HexText(_)
HexText(bytes) ==
    IF bytes = << >> THEN << >>
    ELSE <<LowerHex[(bytes[1] \div 16) + 1], LowerHex[(bytes[1] % 16) + 1]>>
            \o HexText(Tail(bytes))
Line(bytes) == HexText(bytes) \o <<LF>>

\* c8 6a 53 54 52 2d 44 45 36 33 35 20 00 00 00 00: "STR-DE635"
FrameNameDE635 == <<200, 106, 83, 84, 82, 45, 68, 69, 54, 51, 53, 32, 0, 0, 0, 0>>
\* 78 6a ...: "AMP", a model without a scan list of its own
FrameNameAMP == <<120, 106, 65, 77, 80, 0, 0, 0, 0, 0, 0, 0, 0, 0, 0, 0>>
\* c8 48 00 20 54 55 4e 45 52 20 20 00 00 00 00 00: source 0x00, "TUNER"
FrameSourceTuner == <<200, 72, 0, 32, 84, 85, 78, 69, 82, 32, 32, 0, 0, 0, 0, 0>>
\* c8 48 19 43 44 ...: source 0x19, "CD"
FrameSourceCD == <<200, 72, 25, 67, 68, 0, 0, 0, 0, 0, 0, 0, 0, 0, 0, 0>>
\* c8 70 19 16 03 ff: source 0x19, on, muted;  78 70 00 16 00 ff: source 0, off
FrameStatusCD == <<200, 112, 25, 22, 3, 255>>
FrameStatusTuner == <<120, 112, 0, 22, 0, 255>>
\* c8 43 01 00: optical;  c8 43 03 00: a code INPUT_MODES does not hold
FrameModeOptical == <<200, 67, 1, 0>>
FrameModeUnmapped == <<200, 67, 3, 0>>

NameTuner == <<84, 85, 78, 69, 82>>
NameCD == <<67, 68>>
NameMissing == <<88>>

\* three frames in one drain: the device name, a source name, a status
Burst == Line(FrameNameDE635) \o Line(FrameSourceCD) \o Line(FrameStatusCD)

\* what one drain of the link can deliver from an arbitrary device: a frame
\* of each kind, lines that are no frame, a line in two pieces, several lines
GoodChunks ==
    { Burst, Line(FrameNameDE635), Line(FrameNameAMP), Line(FrameSourceTuner),
      Line(FrameSourceCD), Line(FrameStatusCD), Line(FrameStatusTuner),
      Line(FrameModeOptical),
      <<"z", "z", LF>>,                       \* not hex
      <<"c", "8", "7", "0", LF>>,             \* a status frame of 2 bytes
      <<"0", "0", "f", "f", LF>>,             \* no response marker
      HexText(FrameStatusCD),                 \* a line without its end
      <<"7", "8", "7", "0">>, <<"0", "0", "1", "6", "0", "0", "f", "f", LF>> }
BadChunks ==
    { Line(FrameModeUnmapped),
      <<LF>>,                                 \* an empty line
      <<"c", "8", LF>>,                       \* one byte
      <<NonUtf8, LF>>,
      Line(FrameNameDE635) \o <<LF>>,        \* a frame, then an empty line
      Line(FrameStatusCD) \o <<LF>> \o Line(FrameModeOptical) }
Chunks == GoodChunks \cup BadChunks
\* the inputs of a device that says little: three frames at once, or an
\* empty line
FewChunks == { Burst, <<LF>> }

VARIABLES
    \* the fields of SonyDevice
    device_name, device_command_prefix, power_state, available_sources,
    active_source_id, input_mode, muted, arduino, response_buffer,
    lock,           \* the thread that holds self._lock, or NoThread
    \* the threads: where each is, the operation it called, its locals
    pc, call, local,
    \* what the link has seen during the running (or last) operation:
    \* the lines written, the reads, the failed opens; and all settle delays
    wire, reads, open_failures, settles,
    last,           \* how the operation that ended last ended, until the next begins
    env             \* the device and the link

fields == <<device_name, device_command_prefix, power_state, available_sources,
            active_source_id, input_mode, muted, arduino, response_buffer>>
io == <<wire, reads, open_failures, settles>>
vars == <<fields, lock, pc, call, local, io, last, env>>

Fields ==
    [device_name |-> device_name, device_command_prefix |-> device_command_prefix,
     power_state |-> power_state, available_sources |-> available_sources,
     active_source_id |-> active_source_id, input_mode |-> input_mode,
     muted |-> muted, arduino |-> arduino, response_buffer |-> response_buffer]

\* the object as the running operation sees it
Self ==
    [device_name |-> device_name, device_command_prefix |-> device_command_prefix,
     power_state |-> power_state, available_sources |-> available_sources,
     active_source_id |-> active_source_id, input_mode |-> input_mode,
     muted |-> muted, arduino |-> arduino, response_buffer |-> response_buffer,
     wire |-> wire, reads |-> reads, open_failures |-> open_failures,
     settles |-> settles, raised |-> None,
     frames |-> << >>, response_bytes |-> None]

Store(s) ==
    /\ device_name' = s.device_name
    /\ device_command_prefix' = s.device_command_prefix
    /\ power_state' = s.power_state
    /\ available_sources' = s.available_sources
    /\ active_source_id' = s.active_source_id
    /\ input_mode' = s.input_mode
    /\ muted' = s.muted
    /\ arduino' = s.arduino
    /\ response_buffer' = s.response_buffer
    /\ wire' = s.wire
    /\ reads' = s.reads
    /\ open_failures' = s.open_failures
    /\ settles' = s.settles

Idle == [stage |-> "idle"]
NoCall == [op |-> "none"]
NoLast == [by |-> NoThread, op |-> "none", at |-> "none", outcome |-> "none",
           value |-> None]

\* SonyDevice.__init__, with the environment e
InitWith(e) ==
    /\ device_name = None
    /\ device_command_prefix = COMMAND_PREFIX_AMP
    /\ power_state = STATE_UNKNOWN
    /\ available_sources = << >>
    /\ active_source_id = None
    /\ input_mode = None
    /\ muted = FALSE
    /\ arduino = FALSE
    /\ response_buffer = << >>
    /\ lock = NoThread
    /\ pc = [t \in Threads |-> "idle"]
    /\ call = [t \in Threads |-> NoCall]
    /\ local = [t \in Threads |-> Idle]
    /\ wire = << >>
    /\ reads = 0
    /\ open_failures = 0
    /\ settles = 0
    /\ last = NoLast
    /\ env = e

\* an arbitrary device on a link whose open may fail at any attempt
Init == InitWith([device |-> "any", quota |-> MaxInbound, link |-> "flaky"])

(***************************************************************************)
(* The public operations.  A thread calls one (Call), enters its           *)
(* `with self._lock:` block (Acquire) and runs its body, one command (or   *)
(* one accessor body) per step; the step that ends the body, by a return   *)
(* or by an exception, leaves the block and so releases the lock.          *)
(***************************************************************************)
\* "Sony device"
DEFAULT_NAME == <<83, 111, 110, 121, 32, 100, 101, 118, 105, 99, 101>>
\* the name the host configured (CONF_NAME, by default DEFAULT_NAME)
ConfName == DEFAULT_NAME

Accessors == {"name", "state", "is_volume_muted", "source_list", "source",
              "media_title"}
SelectNames == {NameCD, NameTuner, NameMissing}
Calls ==
    {[op |-> o, arg |-> None] :
        o \in {"update", "turn_on", "turn_off", "volume_up", "volume_down"}
              \cup Accessors}
    \cup {[op |-> "mute_volume", arg |-> Some(b)] : b \in BOOLEAN}
    \cup {[op |-> "select_source", arg |-> Some(n)] : n \in SelectNames}

\* lexicographic order of two strings (sequences of code points): a < b
RECURSIVE StrLess(_, _)
StrLess(a, b) ==
    IF b = << >> THEN FALSE
    ELSE IF a = << >> THEN TRUE
    ELSE IF a[1] # b[1] THEN a[1] < b[1]
    ELSE StrLess(Tail(a), Tail(b))

\* sorted(names): the name at index i goes to the place that counts the names
\* below it and the equal names before it
sorted(names) ==
    LET Place(i) ==
            1 + Cardinality({j \in 1..Len(names) :
                                \/ StrLess(names[j], names[i])
                                \/ names[j] = names[i] /\ j < i})
    IN  [k \in 1..Len(names) |-> names[CHOOSE i \in 1..Len(names) : Place(i) = k]]

\* the scan list update chooses for a device name
ScanList(name) ==
    IF name = Some(STR_DE635) THEN <<0, 1, 2, 4, 10, 11, 16, 19>>
    ELSE IF name = Some(STR_DB840) THEN <<0, 1, 2, 4, 10, 11, 12, 16, 19>>
    ELSE IF name = Some(STR_DB2000) THEN <<0, 1, 2, 4, 5, 10, 11, 12, 16, 19>>
    ELSE [i \in 1..20 |-> i - 1]

\* serial.Serial(...) succeeds or raises OSError, as the link decides
OpenOutcomes ==
    CASE env.link = "up" -> {TRUE}
      [] env.link = "down" -> {FALSE}
      [] OTHER -> BOOLEAN

\* The device of a liveness check answers as the protocol has it, and only
\* the commands of its own prefix family ("c0" or "70"): the device name
\* "STR-DE635", the sources TUNER (scan id 0) and CD (scan id 19), the status
\* (CD is active) and the input mode (optical).
Answer(family, prefix, command) ==
    IF prefix # family THEN << >>
    ELSE IF command = COMMAND_DEVICE_NAME THEN Line(FrameNameDE635)
    ELSE IF command = COMMAND_SOURCE_NAME \o "00" THEN Line(FrameSourceTuner)
    ELSE IF command = COMMAND_SOURCE_NAME \o "19" THEN Line(FrameSourceCD)
    ELSE IF command = COMMAND_STATUS_SOURCE THEN Line(FrameStatusCD)
    ELSE IF command = COMMAND_QUERY_INPUT_MODE THEN Line(FrameModeOptical)
    ELSE << >>

\* what the drain that follows a command can deliver
Inputs(command) ==
    IF env.device = "any"
    THEN {<< >>} \cup (IF env.quota > 0 THEN Chunks ELSE {})
    ELSE IF env.device = "few"
    THEN {<< >>} \cup (IF env.quota > 0 THEN FewChunks ELSE {})
    ELSE {Answer(env.device, device_command_prefix, command)}

\* the device has delivered input, if a read took place
Delivered(s, input) ==
    env' = IF env.device \in {"any", "few"} /\ s.reads > reads /\ input # << >>
           THEN [env EXCEPT !.quota = @ - 1] ELSE env

\* an operation body that is entered without taking self._lock
LockFreeUnguarded == TRUE
\* with self._lock: the lock can be taken
LockFree == lock = NoThread

Call(t, c) ==
    /\ pc[t] = "idle"
    /\ pc' = [pc EXCEPT ![t] = "waiting"]
    /\ call' = [call EXCEPT ![t] = c]
    /\ UNCHANGED <<fields, lock, local, io, last, env>>

\* the first stage of an operation's body
Entry(c) ==
    CASE c.op = "update" ->
            [stage |-> IF available_sources = << >> THEN "name1" ELSE "status"]
      [] c.op \in {"volume_up", "volume_down"} -> [stage |-> "volume", i |-> 1]
      [] c.op = "select_source" -> [stage |-> "select"]
      [] c.op \in Accessors -> [stage |-> "get"]
      [] OTHER -> [stage |-> "send"]

\* with self._lock: (entry)
Acquire(t) ==
    /\ pc[t] = "waiting"
    /\ LockFree
    /\ lock' = t
    /\ pc' = [pc EXCEPT ![t] = "running"]
    /\ local' = [local EXCEPT ![t] = Entry(call[t])]
    /\ wire' = << >>
    /\ reads' = 0
    /\ open_failures' = 0
    /\ last' = NoLast
    /\ UNCHANGED <<fields, call, settles, env>>

At(t, ops, stage) ==
    /\ pc[t] = "running"
    /\ call[t].op \in ops
    /\ local[t].stage = stage

Goto(t, l) ==
    /\ local' = [local EXCEPT ![t] = l]
    /\ UNCHANGED <<lock, pc, call, last>>

\* the body ends: the with block is left and the lock released
Leave(t, outcome, value) ==
    /\ lock' = NoThread
    /\ pc' = [pc EXCEPT ![t] = "idle"]
    /\ call' = [call EXCEPT ![t] = NoCall]
    /\ local' = [local EXCEPT ![t] = Idle]
    /\ last' = [by |-> t, op |-> call[t].op, arg |-> call[t].arg,
                at |-> local[t].stage, outcome |-> outcome, value |-> value]

\* the body ends with return
Return(t, value) == Leave(t, "returned", Some(value))
\* a body that takes and releases the lock by hand, without try/finally: an
\* exception ends the operation with the lock still taken
RaisedHoldingLock(t, s) ==
    /\ lock' = lock
    /\ pc' = [pc EXCEPT ![t] = "idle"]
    /\ call' = [call EXCEPT ![t] = NoCall]
    /\ local' = [local EXCEPT ![t] = Idle]
    /\ last' = [by |-> t, op |-> call[t].op, arg |-> call[t].arg,
                at |-> local[t].stage, outcome |-> "raised", value |-> s.raised]
\* an exception leaves the body: the with block releases the lock on its way
Raised(t, s) == Leave(t, "raised", s.raised)

\* update: self._send_sony_command(COMMAND_DEVICE_NAME) and what follows it
UpdateName1(t) ==
    /\ At(t, {"update"}, "name1")
    /\ \E openOk \in OpenOutcomes, input \in Inputs(COMMAND_DEVICE_NAME) :
        LET s == send_sony_command(Self, t, COMMAND_DEVICE_NAME, TRUE, openOk, input)
        IN  /\ Delivered(s, input)
            /\ IF s.raised # None THEN Store(s) /\ Raised(t, s)
               ELSE IF s.device_name = None
               THEN /\ Store([s EXCEPT !.device_command_prefix = COMMAND_PREFIX_NEW_AMP])
                    /\ Goto(t, [stage |-> "name2"])
               ELSE /\ Store(s)
                    /\ Goto(t, [stage |-> "scan", i |-> 1,
                                source_ids_to_scan |-> ScanList(s.device_name)])

\* update: the device-name query under the new prefix
UpdateName2(t) ==
    /\ At(t, {"update"}, "name2")
    /\ \E openOk \in OpenOutcomes, input \in Inputs(COMMAND_DEVICE_NAME) :
        LET s == send_sony_command(Self, t, COMMAND_DEVICE_NAME, TRUE, openOk, input)
        IN  /\ Delivered(s, input)
            /\ Store(s)
            /\ IF s.raised # None THEN Raised(t, s)
               ELSE IF s.device_name = None THEN Return(t, FALSE)
               ELSE Goto(t, [stage |-> "scan", i |-> 1,
                             source_ids_to_scan |-> ScanList(s.device_name)])

\* update: one source-name query of the scan
UpdateScan(t) ==
    /\ At(t, {"update"}, "scan")
    /\ LET command == COMMAND_SOURCE_NAME
                        \o Dec2(local[t].source_ids_to_scan[local[t].i])
       IN  \E openOk \in OpenOutcomes, input \in Inputs(command) :
            LET s == send_sony_command(Self, t, command, TRUE, openOk, input)
            IN  /\ Delivered(s, input)
                /\ Store(s)
                /\ IF s.raised # None THEN Raised(t, s)
                   ELSE IF local[t].i < Len(local[t].source_ids_to_scan)
                   THEN Goto(t, [local[t] EXCEPT !.i = @ + 1])
                   ELSE Goto(t, [stage |-> "status"])

\* update: the status query
UpdateStatus(t) ==
    /\ At(t, {"update"}, "status")
    /\ \E openOk \in OpenOutcomes, input \in Inputs(COMMAND_STATUS_SOURCE) :
        LET s == send_sony_command(Self, t, COMMAND_STATUS_SOURCE, TRUE, openOk, input)
        IN  /\ Delivered(s, input)
            /\ Store(s)
            /\ IF s.raised # None THEN Raised(t, s)
               ELSE IF should_split_source_by_input_mode(s, s.active_source_id)
               THEN Goto(t, [stage |-> "mode"])
               ELSE Return(t, Len(s.available_sources) > 0)

\* update: the input-mode query
UpdateMode(t) ==
    /\ At(t, {"update"}, "mode")
    /\ \E openOk \in OpenOutcomes, input \in Inputs(COMMAND_QUERY_INPUT_MODE) :
        LET s == send_sony_command(Self, t, COMMAND_QUERY_INPUT_MODE, TRUE, openOk, input)
        IN  /\ Delivered(s, input)
            /\ Store(s)
            /\ IF s.raised # None THEN Raised(t, s)
               ELSE Return(t, Len(s.available_sources) > 0)

\* the command of turn_on, turn_off and mute_volume
SimpleCommand(c) ==
    CASE c.op = "turn_on" -> COMMAND_POWER_ON
      [] c.op = "turn_off" -> COMMAND_POWER_OFF
      [] c.op = "mute_volume" -> IF c.arg = Some(TRUE) THEN COMMAND_MUTE
                                 ELSE COMMAND_UNMUTE

\* turn_on, turn_off, mute_volume: one command, its response dispatched
Command(t) ==
    /\ At(t, {"turn_on", "turn_off", "mute_volume"}, "send")
    /\ \E openOk \in OpenOutcomes, input \in Inputs(SimpleCommand(call[t])) :
        LET s == send_sony_command(Self, t, SimpleCommand(call[t]), TRUE, openOk, input)
        IN  /\ Delivered(s, input)
            /\ Store(s)
            /\ IF s.raised # None THEN Raised(t, s) ELSE Return(t, None)

\* a pass of the volume loop that leaves expect_response at its default
VolumeStepExpectsResponse(t) ==
    /\ At(t, {"volume_up", "volume_down"}, "volume")
    /\ LET command == IF call[t].op = "volume_up" THEN COMMAND_VOLUME_UP
                      ELSE COMMAND_VOLUME_DOWN
       IN  \E openOk \in OpenOutcomes, input \in Inputs(command) :
            LET s == send_sony_command(Self, t, command, TRUE, openOk, input)
            IN  /\ Delivered(s, input)
                /\ Store(s)
                /\ IF s.raised # None THEN Raised(t, s)
                   ELSE IF local[t].i < VOLUME_STEPS
                   THEN Goto(t, [local[t] EXCEPT !.i = @ + 1])
                   ELSE Return(t, None)
\* volume_up, volume_down: one pass of the loop (a command without a read,
\* then the repeat delay)
VolumeStep(t) ==
    /\ At(t, {"volume_up", "volume_down"}, "volume")
    /\ \E openOk \in OpenOutcomes :
        LET command == IF call[t].op = "volume_up" THEN COMMAND_VOLUME_UP
                       ELSE COMMAND_VOLUME_DOWN
            s == send_sony_command(Self, t, command, FALSE, openOk, << >>)
        IN  /\ Store(s)
            /\ UNCHANGED env
            /\ IF local[t].i < VOLUME_STEPS
               THEN Goto(t, [local[t] EXCEPT !.i = @ + 1])
               ELSE Return(t, None)

\* a search that falls through to the last entry when no name matches
FindNameOrLast(sources, source_name) ==
    LET hits == {i \in 1..Len(sources) : sources[i].name = source_name}
    IN  IF hits = {} THEN Len(sources) ELSE CHOOSE i \in hits : \A j \in hits : i <= j
\* the index of the first source with this name, or 0
FindName(sources, source_name) ==
    LET hits == {i \in 1..Len(sources) : sources[i].name = source_name}
    IN  IF hits = {} THEN 0 ELSE CHOOSE i \in hits : \A j \in hits : i <= j

\* the code INPUT_MODES.items() gives first for an input mode, as a set
ModeCodes(mode) ==
    {INPUT_MODES[i][1] : i \in {j \in 1..Len(INPUT_MODES) :
                                    Some(INPUT_MODES[j][2]) = mode}}

\* select_source: the search for the name and the select-source command
SelectSource(t) ==
    /\ At(t, {"select_source"}, "select")
    /\ LET k == FindName(available_sources, call[t].arg[1]) IN
       IF k = 0
       THEN /\ Return(t, None)
            /\ UNCHANGED <<fields, io, env>>
       ELSE LET source == available_sources[k]
                command == COMMAND_SELECT_SOURCE \o Hex2(source.id)
            IN  \E openOk \in OpenOutcomes, input \in Inputs(command) :
                LET s == send_sony_command(Self, t, command, TRUE, openOk, input)
                IN  /\ Delivered(s, input)
                    /\ Store(s)
                    /\ IF s.raised # None THEN Raised(t, s)
                       ELSE IF ModeCodes(source.input_mode) = {} THEN Return(t, None)
                       ELSE Goto(t, [stage |-> "mode", source |-> source])

\* select_source: the set-input-mode command of a source with an input mode
SelectInputMode(t) ==
    /\ At(t, {"select_source"}, "mode")
    /\ LET input_mode_id == CHOOSE c \in ModeCodes(local[t].source.input_mode) : TRUE
           command == COMMAND_INPUT_MODE \o Hex2(input_mode_id)
       IN  \E openOk \in OpenOutcomes, input \in Inputs(command) :
            LET s == send_sony_command(Self, t, command, TRUE, openOk, input)
            IN  /\ Delivered(s, input)
                /\ Store(s)
                /\ IF s.raised # None THEN Raised(t, s) ELSE Return(t, None)

\* what an accessor returns
AccessorValue(op) ==
    CASE op = "name" ->
            IF ConfName # DEFAULT_NAME THEN ConfName
            ELSE IF device_name \in {None, Some(<< >>)} THEN ConfName
            ELSE device_name[1]
      [] op = "state" -> power_state
      [] op = "is_volume_muted" -> muted
      [] op = "source_list" ->
            sorted([i \in 1..Len(available_sources) |-> available_sources[i].name])
      [] op \in {"source", "media_title"} ->
            IF get_active_source(Self) = None THEN << >>
            ELSE get_active_source(Self)[1].name

\* name, state, is_volume_muted, source_list, source, media_title
Accessor(t) ==
    /\ At(t, Accessors, "get")
    /\ Return(t, AccessorValue(call[t].op))
    /\ UNCHANGED <<fields, io, env>>

Step(t, calls) ==
    \/ \E c \in calls : Call(t, c)
    \/ Acquire(t)
    \/ UpdateName1(t)
    \/ UpdateName2(t)
    \/ UpdateScan(t)
    \/ UpdateStatus(t)
    \/ UpdateMode(t)
    \/ Command(t)
    \/ VolumeStep(t)
    \/ SelectSource(t)
    \/ SelectInputMode(t)
    \/ Accessor(t)

\* the host calls from one thread
Next == Step(1, Calls)
Spec == Init /\ [][Next]_vars

\* the host calls from several threads, the device delivering MaxInboundThreads
\* inputs
ThreadCalls ==
    {c \in Calls : c.op \in {"update", "turn_on", "volume_up", "source"}}
    \cup {[op |-> "select_source", arg |-> Some(NameCD)]}
InitThreads ==
    InitWith([device |-> "few", quota |-> MaxInboundThreads, link |-> "flaky"])
NextThreads == \E t \in Threads : Step(t, ThreadCalls)
SpecThreads == InitThreads /\ [][NextThreads]_vars

\* The link is down and comes up for good (LinkUp); the device answers the
\* commands of one prefix family.  The host polls update again and again, a
\* thread that can take a step takes it, the link comes up.
LinkUp ==
    /\ env.link = "down"
    /\ env' = [env EXCEPT !.link = "up"]
    /\ UNCHANGED <<fields, lock, pc, call, local, io, last>>
InitLive ==
    \E family \in {COMMAND_PREFIX_AMP, COMMAND_PREFIX_NEW_AMP} :
        InitWith([device |-> family, quota |-> 0, link |-> "down"])
Progress(t) ==
    \/ Acquire(t)
    \/ UpdateName1(t) \/ UpdateName2(t) \/ UpdateScan(t) \/ UpdateStatus(t)
    \/ UpdateMode(t) \/ Command(t) \/ VolumeStep(t) \/ SelectSource(t)
    \/ SelectInputMode(t) \/ Accessor(t)
\* Progress(t) can take a step exactly when t runs a body, or waits for a
\* free lock; ProgressFair(t) is WF_vars(Progress(t)) with ENABLED written
\* out as that condition.
ProgressEnabled(t) == pc[t] = "running" \/ (pc[t] = "waiting" /\ LockFree)
ProgressFair(t) == []<>(~ProgressEnabled(t)) \/ []<><<Progress(t)>>_vars
NextLive == Step(1, Calls) \/ LinkUp
SpecLive ==
    /\ InitLive /\ [][NextLive]_vars
    /\ WF_vars(LinkUp)
    /\ ProgressFair(1)
    /\ SF_vars(Call(1, [op |-> "update", arg |-> None]))

\* The host calls update, volume_up and source from several threads under
\* fair scheduling: a thread that runs a body goes on with it, and a thread
\* that waits for the lock is not passed over for ever when the lock is free
\* again and again.
FairCalls == {c \in Calls : c.op \in {"update", "volume_up", "source"}}
StepFair(t) ==
    \/ \E c \in FairCalls : Call(t, c)
    \/ Acquire(t)
    \/ UpdateName1(t)
    \/ UpdateName2(t)
    \/ UpdateScan(t)
    \/ UpdateStatus(t)
    \/ UpdateMode(t)
    \/ VolumeStep(t)
    \/ Accessor(t)
NextFair == \E t \in Threads : StepFair(t)
SpecFair ==
    /\ InitThreads /\ [][NextFair]_vars
    /\ \A t \in Threads : ProgressFair(t) /\ SF_vars(Acquire(t))

(***************************************************************************)
(* _read_sony_response on its own: the link is opened (Connect), then each  *)
(* step is one call of _read_sony_response (Feed) whose drain delivers one *)
(* chunk of FeedChunks; MaxFeeds calls are made.                           *)
(***************************************************************************)
MaxFeeds == 2

\* c8 48 00 46 4d ...: source 0x00 again, now named "FM"
FrameSourceFM == <<200, 72, 0, 70, 77, 0, 0, 0, 0, 0, 0, 0, 0, 0, 0, 0>>
\* 78 48 19 53 41 43 44 ...: source 0x19 again, now named "SACD"
FrameSourceSACD == <<120, 72, 25, 83, 65, 67, 68, 0, 0, 0, 0, 0, 0, 0, 0, 0>>
\* the status frames of 6 bytes: both markers, two sources, the four values
\* of the power and mute bits, and 0x31 of the comment "c8 70 16 16 31 ff"
StatusFrames ==
    {<<m, 112, id, 22, b, 255>> : m \in {200, 120}, id \in {0, 25},
                                  b \in {0, 1, 2, 3, 49}}
\* status frames of 2, 5 and 7 bytes
ShortStatusFrames ==
    { <<200, 112>>, <<120, 112, 25, 22, 3>>, <<200, 112, 25, 22, 3, 255, 0>> }
\* the input-mode frames of 4 bytes: both markers, the four codes of
\* INPUT_MODES and the code 3, which INPUT_MODES does not hold
ModeFrames == {<<m, 67, c, 0>> : m \in {200, 120}, c \in {0, 1, 2, 3, 4}}
\* lines with a character that is no hex digit (the last is no UTF-8)
NonHexLines ==
    { <<"z", "z">>, <<"c", "8", "7", "0", "1", "9", "1", "6", "0", "3", "f", "g">>,
      <<"c", "8", " ", "7", "0">>, <<NonUtf8>> }
\* lines of hex digits of odd length: 11 characters that start like a status
\* frame, 3 characters, 1 character
OddLines ==
    { <<"c", "8", "7", "0", "1", "9", "1", "6", "0", "3", "f">>,
      <<"7", "8", "7">>, <<"c">> }
\* a line in two pieces
Piece1 == SubSeq(HexText(FrameStatusCD), 1, 8)
Piece2 == SubSeq(HexText(FrameStatusCD), 9, 12) \o <<LF>>

FeedChunks ==
    {Line(f) : f \in StatusFrames \cup ShortStatusFrames \cup ModeFrames}
    \cup {Line(FrameNameDE635), Line(FrameNameAMP), Line(FrameSourceTuner),
          Line(FrameSourceCD), Line(FrameSourceFM), Line(FrameSourceSACD),
          Line(FrameModeOptical), Burst}
    \cup {l \o <<LF>> : l \in NonHexLines \cup OddLines}
    \cup {l \o <<LF>> \o Line(FrameStatusTuner) : l \in NonHexLines}
    \cup {Piece1, Piece2, <<LF>>,
          Line(FrameStatusTuner) \o Line(FrameStatusCD),
          Line(FrameSourceTuner) \o Line(FrameSourceFM),
          Line(FrameStatusTuner) \o Piece1}

\* self._arduino = serial.Serial(...) succeeds
Connect ==
    /\ ~arduino
    /\ Store(check_arduino_connection(Self, TRUE))
    /\ UNCHANGED <<lock, pc, call, local, last, env>>

\* one call of _read_sony_response, the drain delivering input
Feed ==
    /\ arduino
    /\ env.quota > 0
    /\ \E input \in FeedChunks :
        LET s == read_sony_response(Self, input)
        IN  /\ Store(s)
            /\ env' = [env EXCEPT !.quota = @ - 1]
            /\ last' = [by |-> NoThread, op |-> "_read_sony_response",
                        arg |-> Some(input), at |-> "dispatch",
                        outcome |-> IF s.raised # None THEN "raised" ELSE "returned",
                        value |-> s.raised,
                        frames |-> s.frames, response_bytes |-> s.response_bytes]
            /\ UNCHANGED <<lock, pc, call, local>>

InitFeed == InitWith([device |-> "feed", quota |-> MaxFeeds, link |-> "up"])
NextFeed == Connect \/ Feed
SpecFeed == InitFeed /\ [][NextFeed]_vars

(***************************************************************************)
(* Properties                                                              *)
(***************************************************************************)
\* the lines written since the running (or last) operation began
Lines(w) == [i \in 1..Len(w) |-> w[i].line]
\* thread t takes the step
Moves(t) == pc'[t] # pc[t] \/ local'[t] # local[t]
Running == {t \in Threads : pc[t] = "running"}

\* C1: whatever the interleaving of the threads' calls, at most one
\* operation at a time is inside its body (writing to the link, reading from
\* it, reading or changing the fields), it is the one that holds the lock,
\* and the lines on the wire since an operation began were all written by
\* that one operation.
C1_OneOperationAtATime ==
    /\ Cardinality(Running) <= 1
    /\ \A t \in Running : lock = t
    /\ \A i \in 1..Len(wire) : wire[i].by = wire[1].by
    /\ \A t \in Running : \A i \in 1..Len(wire) : wire[i].by = t
\* an operation has written to the link while another thread waits for the lock
C1_Witness ==
    \E t, u \in Threads :
        /\ t # u /\ pc[t] = "running" /\ pc[u] = "waiting"
        /\ Len(wire) >= 2

\* C2: whatever line the device sends, the error stays with the frame: no
\* public operation ends by raising, and no complete line is left in the
\* backlog when the operation is over.
C2_FrameErrorsContained ==
    /\ last.outcome # "raised"
    /\ lock = NoThread => FindLF(response_buffer) = 0

\* C3: an operation during which the link could not be opened is over with
\* that failed open (it holds the lock no longer, has written nothing and has
\* tried to open once), and the fields are as they were before the call.
C3_OpenFailureAborts ==
    [][open_failures' > 0 =>
        /\ lock' = NoThread /\ wire' = << >> /\ open_failures' = 1
        /\ ~arduino' /\ fields' = fields]_vars

\* C4: an update that started with an empty catalog and found device_name
\* still None after the retry of the device-name query returns False, has
\* written nothing but device-name queries, and leaves the catalog empty.
C4_NoDeviceFound ==
    (last.op = "update" /\ last.at = "name2" /\ device_name = None) =>
        /\ last.outcome = "returned" /\ last.value = Some(FALSE)
        /\ \A i \in 1..Len(wire) :
              wire[i].line \in {COMMAND_PREFIX_AMP \o COMMAND_DEVICE_NAME,
                                COMMAND_PREFIX_NEW_AMP \o COMMAND_DEVICE_NAME}
        /\ available_sources = << >>

\* C5: the prefix starts as 'c0' and changes only from 'c0' to '70' (so at
\* most once), inside an update that wrote a device-name query under 'c0'
\* and has no device name after it.
C5_PrefixFlipsOnce ==
    /\ device_command_prefix = COMMAND_PREFIX_AMP
    /\ [][device_command_prefix' # device_command_prefix =>
            /\ device_command_prefix = COMMAND_PREFIX_AMP
            /\ device_command_prefix' = COMMAND_PREFIX_NEW_AMP
            /\ lock # NoThread /\ call[lock].op = "update"
            /\ \E i \in 1..Len(wire') :
                  wire'[i].line = COMMAND_PREFIX_AMP \o COMMAND_DEVICE_NAME
            /\ device_name' = None]_vars

\* C6: once the link can be opened and the device answers the queries of its
\* prefix family, some update returns True with a non-empty catalog.
C6_Recovers ==
    <>(/\ last.op = "update" /\ last.outcome = "returned"
       /\ last.value = Some(TRUE) /\ available_sources # << >>)

\* C7: an update that starts with a non-empty catalog and the link open
\* writes the status query and nothing else, then the input-mode query if
\* and only if the device is STR-DE635 and the active source is 0x19 once the
\* status response is dispatched, and writes nothing more; the prefix stays.
C7_SteadyStateUpdate ==
    [][\A t \in Threads :
        /\ (At(t, {"update"}, "status") /\ wire = << >> /\ arduino /\ Moves(t)) =>
              /\ Lines(wire') = <<device_command_prefix \o COMMAND_STATUS_SOURCE>>
              /\ device_command_prefix' = device_command_prefix
              /\ IF device_name' = Some(STR_DE635) /\ active_source_id' = Some(25)
                 THEN pc'[t] = "running" /\ local'[t].stage = "mode"
                 ELSE pc'[t] = "idle"
        /\ (At(t, {"update"}, "mode") /\ arduino /\ Moves(t)) =>
              /\ Lines(wire') = Append(Lines(wire),
                                  device_command_prefix \o COMMAND_QUERY_INPUT_MODE)
              /\ device_command_prefix' = device_command_prefix
              /\ pc'[t] = "idle"]_vars

\* the scan list the specification gives for a device name (None: any list)
ExpectedScan(name) ==
    IF name = Some(STR_DE635) THEN Some(<<0, 1, 2, 4, 10, 11, 16, 19>>)
    ELSE IF name \in {Some(STR_DB840), Some(STR_DB2000)} THEN None
    ELSE Some(<<0, 1, 2, 3, 4, 5, 6, 7, 8, 9, 10, 11, 12, 13, 14, 15, 16, 17, 18, 19>>)
\* a scan id as two decimal digits
TwoDecimals ==
    <<"00", "01", "02", "03", "04", "05", "06", "07", "08", "09",
      "10", "11", "12", "13", "14", "15", "16", "17", "18", "19">>

\* C8: when an update that starts with an empty catalog has no device name,
\* writes the device-name query under 'c0' and has a device name after it,
\* the prefix stays 'c0' and the update goes on to the scan list of that
\* name; each step of the scan of an update that did not retry writes the
\* source-name query of the next id of the list, as two decimal digits, and
\* the status query is written after the last of them.
C8_DiscoveryScan ==
    [][\A t \in Threads :
        /\ ( /\ At(t, {"update"}, "name1") /\ Moves(t)
             /\ device_command_prefix = COMMAND_PREFIX_AMP
             /\ device_name = None /\ device_name' # None
             /\ Lines(wire') = <<COMMAND_PREFIX_AMP \o COMMAND_DEVICE_NAME>> ) =>
                /\ device_command_prefix' = COMMAND_PREFIX_AMP
                /\ pc'[t] = "running" /\ local'[t].stage = "scan" /\ local'[t].i = 1
                /\ ExpectedScan(device_name') \in
                        {None, Some(local'[t].source_ids_to_scan)}
        /\ ( /\ At(t, {"update"}, "scan") /\ Moves(t) /\ arduino
             /\ wire # << >>
             /\ wire[1].line = COMMAND_PREFIX_AMP \o COMMAND_DEVICE_NAME
             /\ device_command_prefix = COMMAND_PREFIX_AMP ) =>
                /\ Lines(wire') = Append(Lines(wire),
                        COMMAND_PREFIX_AMP \o COMMAND_SOURCE_NAME \o
                        TwoDecimals[local[t].source_ids_to_scan[local[t].i] + 1])
                /\ pc'[t] = "running"
                /\ IF local[t].i < Len(local[t].source_ids_to_scan)
                   THEN local'[t] = [local[t] EXCEPT !.i = @ + 1]
                   ELSE local'[t].stage = "status"
        /\ ( /\ At(t, {"update"}, "status") /\ Moves(t) /\ arduino
             /\ wire # << >> ) =>
                Lines(wire') = Append(Lines(wire),
                        device_command_prefix \o COMMAND_STATUS_SOURCE)]_vars

\* a name matches no catalog entry
Unknown(source_name) ==
    \A i \in 1..Len(available_sources) : available_sources[i].name # source_name

\* C9: select_source with a name that no entry of a non-empty catalog has
\* writes nothing, does not open the link, reads nothing and changes no
\* field; it returns.
C9_SelectUnknownSource ==
    [][\A t \in Threads :
        ( /\ At(t, {"select_source"}, "select") /\ Moves(t)
          /\ available_sources # << >> /\ Unknown(call[t].arg[1]) ) =>
            /\ fields' = fields /\ io' = io
            /\ pc'[t] = "idle" /\ last'.outcome = "returned"]_vars
\* select_source("X") has ended, "X" being no name of the non-empty catalog
C9_Witness ==
    /\ last.op = "select_source" /\ last.arg = Some(NameMissing)
    /\ available_sources # << >> /\ Unknown(NameMissing)
    /\ lock = NoThread

\* the hex digits of a code of INPUT_MODES
ModeArgument(mode) ==
    CASE mode = Some("auto") -> "00" [] mode = Some("optical") -> "01"
      [] mode = Some("coaxial") -> "02" [] mode = Some("analog") -> "04"

\* C10: select_source with a name of the catalog and the link open writes,
\* for the first entry with that name, the select-source command with the
\* entry's id as two hex digits and reads; then, if and only if the entry has
\* an input mode, the set-input-mode command with the mode's code and reads;
\* and nothing else.
C10_SelectKnownSource ==
    [][\A t \in Threads :
        /\ (At(t, {"select_source"}, "select") /\ Moves(t) /\ arduino) =>
              \A k \in 1..Len(available_sources) :
                ( /\ available_sources[k].name = call[t].arg[1]
                  /\ \A j \in 1..(k - 1) :
                        available_sources[j].name # call[t].arg[1] ) =>
                    /\ Lines(wire') =
                         <<device_command_prefix \o COMMAND_SELECT_SOURCE
                           \o (IF available_sources[k].id = 25 THEN "19"
                               ELSE IF available_sources[k].id = 0 THEN "00"
                               ELSE Hex2(available_sources[k].id))>>
                    /\ reads' = 1
                    /\ IF available_sources[k].input_mode # None
                       THEN /\ pc'[t] = "running" /\ local'[t].stage = "mode"
                            /\ local'[t].source = available_sources[k]
                       ELSE pc'[t] = "idle"
        /\ (At(t, {"select_source"}, "mode") /\ Moves(t) /\ arduino) =>
              /\ Lines(wire') = Append(Lines(wire),
                    device_command_prefix \o COMMAND_INPUT_MODE
                    \o ModeArgument(local[t].source.input_mode))
              /\ reads' = reads + 1
              /\ pc'[t] = "idle"]_vars

\* this step is a call of _read_sony_response whose drain delivers input
FeedOf(input) ==
    /\ env'.quota = env.quota - 1
    /\ last'.op = "_read_sony_response" /\ last'.arg = Some(input)
\* this step dispatches the line of frame f and nothing else
Dispatches(f) == FeedOf(Line(f)) /\ response_buffer = << >>
\* the source-name frames fed and the names they carry
SourceFrames == {FrameSourceTuner, FrameSourceFM, FrameSourceCD, FrameSourceSACD}
BaseName(f) ==
    CASE f = FrameSourceTuner -> <<84, 85, 78, 69, 82>>         \* "TUNER"
      [] f = FrameSourceFM -> <<70, 77>>                        \* "FM"
      [] f = FrameSourceCD -> <<67, 68>>                        \* "CD"
      [] f = FrameSourceSACD -> <<83, 65, 67, 68>>              \* "SACD"
\* the catalog entries of sources with this id and input mode
PairEntries(sources, id, mode) ==
    {i \in 1..Len(sources) : sources[i].id = id /\ sources[i].input_mode = mode}
\* the (input mode, name) pairs a source-name frame stands for
FramePairs(f) ==
    IF device_name = Some(STR_DE635) /\ f[3] = 25
    THEN {<<Some("auto"), BaseName(f)>>,
          <<Some("analog"), BaseName(f) \o <<32, 124, 32, 97, 110, 97, 108, 111, 103>> >>,
          <<Some("coaxial"), BaseName(f) \o <<32, 124, 32, 99, 111, 97, 120, 105, 97, 108>> >>,
          <<Some("optical"), BaseName(f) \o <<32, 124, 32, 111, 112, 116, 105, 99, 97, 108>> >>}
    ELSE {<<None, BaseName(f)>>}

\* C11: when a source-name frame is dispatched, the catalog then holds
\* exactly one entry for each (id, input_mode) pair of the frame, and it bears
\* the name the frame gives, also when the pair was in the catalog under
\* another name; the entries for (id, none) and (id, optical) are two.
C11_UpsertSourceName ==
    [][\A f \in SourceFrames : Dispatches(f) =>
        /\ \A p \in FramePairs(f) :
            /\ Cardinality(PairEntries(available_sources', f[3], p[1])) = 1
            /\ \A i \in PairEntries(available_sources', f[3], p[1]) :
                  available_sources'[i].name = p[2]
        /\ ( /\ PairEntries(available_sources', f[3], None) # {}
             /\ PairEntries(available_sources', f[3], Some("optical")) # {} ) =>
                Cardinality(PairEntries(available_sources', f[3], None)
                    \cup PairEntries(available_sources', f[3], Some("optical"))) = 2]_vars

\* C12: a source-name frame whose (id, input_mode) pairs are not in the
\* catalog yet adds, when the device name is STR-DE635 and the id 0x19, four
\* entries with that id: auto with the frame's name, then analog, coaxial and
\* optical with the name followed by " | " and the mode; for any other
\* device name or id it adds one entry with no input mode.
C12_SplitByInputMode ==
    [][\A f \in SourceFrames :
        ( /\ Dispatches(f)
          /\ \A p \in FramePairs(f) :
                PairEntries(available_sources, f[3], p[1]) = {} ) =>
            IF device_name = Some(STR_DE635) /\ f[3] = 25
            THEN available_sources' = available_sources \o
                    << [id |-> 25, input_mode |-> Some("auto"), name |-> BaseName(f)],
                       [id |-> 25, input_mode |-> Some("analog"),
                        name |-> BaseName(f) \o <<32, 124, 32, 97, 110, 97, 108, 111, 103>>],
                       [id |-> 25, input_mode |-> Some("coaxial"),
                        name |-> BaseName(f) \o <<32, 124, 32, 99, 111, 97, 120, 105, 97, 108>>],
                       [id |-> 25, input_mode |-> Some("optical"),
                        name |-> BaseName(f) \o <<32, 124, 32, 111, 112, 116, 105, 99, 97, 108>>] >>
            ELSE available_sources' = Append(available_sources,
                    [id |-> f[3], input_mode |-> None, name |-> BaseName(f)])]_vars
\* the frame of source 0x19 has been dispatched with the device name
\* STR-DE635 known, and the catalog holds its four entries
C12_Witness ==
    /\ last.op = "_read_sony_response" /\ last.arg = Some(Line(FrameSourceCD))
    /\ last.outcome = "returned"
    /\ device_name = Some(STR_DE635)
    /\ Len(available_sources) = 4

\* the catalog entries the active source id and input mode select
ActiveMatches ==
    {i \in 1..Len(available_sources) :
        /\ Some(available_sources[i].id) = active_source_id
        /\ available_sources[i].input_mode \in {None, input_mode}}
\* the catalog entries of the split source with the active input mode
ActiveVariants ==
    {i \in 1..Len(available_sources) :
        /\ available_sources[i].id = 25
        /\ available_sources[i].input_mode # None
        /\ available_sources[i].input_mode = input_mode}

\* C13: what source and media_title return is the empty name when no catalog
\* entry has the active source id and no or the active input mode, and else
\* the name of the first such entry; when the device is STR-DE635 and the
\* active source is 0x19 it is the name of the entry whose input mode is the
\* active input mode, and the empty name while the input mode is unknown.
C13_ActiveSource ==
    (last.op \in {"source", "media_title"} /\ last.outcome = "returned") =>
        /\ IF ActiveMatches = {} THEN last.value = Some(<< >>)
           ELSE \E i \in ActiveMatches :
                  /\ \A j \in ActiveMatches : i <= j
                  /\ last.value = Some(available_sources[i].name)
        /\ (device_name = Some(STR_DE635) /\ active_source_id = Some(25)) =>
              IF ActiveVariants = {} THEN last.value = Some(<< >>)
              ELSE \E i \in ActiveVariants :
                      last.value = Some(available_sources[i].name)

\* thread t takes a step that calls _send_sony_command
Sends(t) ==
    /\ pc[t] = "running" /\ Moves(t)
    /\ \/ local[t].stage \in {"name1", "name2", "scan", "status", "mode", "send",
                              "volume"}
       \/ local[t].stage = "select" /\ ~Unknown(call[t].arg[1])

\* C14: the link is not open at construction; once open it stays open; the
\* settle delay happens at the successful open and at no other time, so
\* once; a line is written or a read made only with the link open and
\* settled; a failed open leaves the link not open, and every command sent
\* while it is not open tries the open again.
C14_LinkLifecycle ==
    /\ ~arduino /\ settles = 0
    /\ [][ /\ arduino => arduino'
           /\ settles' = IF ~arduino /\ arduino' THEN settles + 1 ELSE settles
           /\ settles' <= 1
           /\ Len(wire') > Len(wire) => arduino' /\ settles' = 1
           /\ reads' > reads => arduino' /\ settles' = 1
           /\ open_failures' > open_failures => ~arduino /\ ~arduino'
           /\ \A t \in Threads :
                (Sends(t) /\ ~arduino) =>
                    \/ arduino' /\ open_failures' = open_failures
                    \/ ~arduino' /\ open_failures' = open_failures + 1 ]_vars
\* an open failed, the next command of the operation opened the link and
\* wrote its line
C14_Witness ==
    /\ arduino /\ settles = 1
    /\ open_failures > 0 /\ wire # << >>

\* C15: each step of volume_up or volume_down taken with the link open
\* writes the volume-up or volume-down command under the current prefix,
\* reads nothing and changes no field; the operation ends with the step that
\* writes the second copy (VOLUME_STEPS is 2), so it writes two copies and
\* nothing else.
C15_VolumeSteps ==
    [][\A t \in Threads :
        (At(t, {"volume_up", "volume_down"}, "volume") /\ Moves(t) /\ arduino) =>
            /\ Lines(wire') = Append(Lines(wire), device_command_prefix \o
                    (IF call[t].op = "volume_up" THEN "14" ELSE "15"))
            /\ reads' = reads /\ reads' = 0
            /\ fields' = fields
            /\ \A i \in 1..Len(wire') : wire'[i].line = wire'[1].line
            /\ (pc'[t] = "idle") <=> (Len(wire') = 2)
            /\ pc'[t] = "idle" => last'.outcome = "returned"]_vars
\* volume_up has ended with the link open from its first step on
C15_Witness ==
    /\ last.op = "volume_up" /\ last.outcome = "returned"
    /\ Len(wire) = 2 /\ open_failures = 0

\* no two entries have the same id and input mode
UniquePairs(sources) ==
    \A i, j \in 1..Len(sources) :
        (sources[i].id = sources[j].id /\ sources[i].input_mode = sources[j].input_mode)
            => i = j

\* C16: in every state no two catalog entries have the same (id,
\* input_mode), and every step leaves the entries the catalog had where they
\* were: none is removed.
C16_CatalogPairsUnique ==
    /\ UniquePairs(available_sources)
    /\ [][ /\ UniquePairs(available_sources')
           /\ Len(available_sources') >= Len(available_sources)
           /\ \A i \in 1..Len(available_sources) :
                /\ available_sources'[i].id = available_sources[i].id
                /\ available_sources'[i].input_mode = available_sources[i].input_mode
         ]_vars
\* a source-name frame has been dispatched for a pair the catalog held
C16_Witness ==
    /\ last.outcome = "raised" /\ last.value = Some("AttributeError")
    /\ Len(available_sources) >= 1

\* C17: a call of _read_sony_response takes from the backlog followed by the
\* bytes it read the lines in their order, each the bytes between one line
\* break and the next (a line that arrived in pieces is the concatenation of
\* its pieces); it takes every complete line unless a line raises, and keeps
\* as the backlog exactly the bytes after the last line it took.
C17_BacklogFraming ==
    [][\A input \in FeedChunks : FeedOf(input) =>
        LET stream == response_buffer \o input
            ends == {i \in 1..Len(stream) : stream[i] = LF}
            End(k) == CHOOSE p \in ends : Cardinality({q \in ends : q < p}) = k - 1
            Start(k) == IF k = 1 THEN 1 ELSE End(k - 1) + 1
            n == Len(last'.frames)
        IN  /\ n <= Cardinality(ends)
            /\ last'.outcome = "returned" => n = Cardinality(ends)
            /\ \A k \in 1..n : last'.frames[k] = SubSeq(stream, Start(k), End(k) - 1)
            /\ response_buffer' =
                  SubSeq(stream, IF n = 0 THEN 1 ELSE End(n) + 1, Len(stream))]_vars
\* a line that arrived in two pieces, in two calls, has been taken as one
\* frame and dispatched
C17_Witness ==
    /\ last.op = "_read_sony_response" /\ last.arg = Some(Piece2)
    /\ last.frames = <<HexText(FrameStatusCD)>>
    /\ active_source_id = Some(25) /\ response_buffer = << >>

\* the value of a hex digit
DigitValue(c) ==
    CASE c = "0" -> 0 [] c = "1" -> 1 [] c = "2" -> 2 [] c = "3" -> 3
      [] c = "4" -> 4 [] c = "5" -> 5 [] c = "6" -> 6 [] c = "7" -> 7
      [] c = "8" -> 8 [] c = "9" -> 9
      [] c \in {"a", "A"} -> 10 [] c \in {"b", "B"} -> 11 [] c \in {"c", "C"} -> 12
      [] c \in {"d", "D"} -> 13 [] c \in {"e", "E"} -> 14 [] c \in {"f", "F"} -> 15
\* the bytes of the whole pairs of characters of a line, left to right
PairBytes(l) ==
    [i \in 1..(Len(l) \div 2) |-> 16 * DigitValue(l[2 * i - 1]) + DigitValue(l[2 * i])]
\* the lines of hex digits that are fed alone
HexLines ==
    OddLines \cup {HexText(f) : f \in StatusFrames \cup ShortStatusFrames}
    \cup {HexText(FrameNameDE635), HexText(FrameSourceTuner), HexText(FrameModeOptical)}
\* this step decodes the line l and nothing else
Decodes(l) == FeedOf(l \o <<LF>>) /\ response_buffer = << >>

\* C18 as stated: a line of hex digits is decoded into the bytes of its
\* whole pairs; the last character of a line of odd length is dropped.
C18_OddLengthTruncated ==
    [][\A l \in HexLines : Decodes(l) =>
        last'.response_bytes = Some(PairBytes(l))]_vars
\* C18: a line of hex digits is decoded into the bytes of its pairs, left to
\* right; the last character of a line of odd length is decoded as one more
\* byte, the value of that digit, so that the frame has (length + 1) / 2
\* bytes.
C18_OddLengthLastDigit ==
    [][\A l \in HexLines : Decodes(l) =>
        /\ last'.response_bytes =
              Some(IF Len(l) % 2 = 0 THEN PairBytes(l)
                   ELSE Append(PairBytes(l), DigitValue(l[Len(l)])))
        /\ Len(last'.response_bytes[1]) = (Len(l) + 1) \div 2]_vars
\* the line "c870191603f" of 11 characters has been decoded into 6 bytes and
\* dispatched as a status frame
C18_Witness ==
    /\ last.op = "_read_sony_response"
    /\ last.arg = Some(<<"c", "8", "7", "0", "1", "9", "1", "6", "0", "3", "f", LF>>)
    /\ last.response_bytes = Some(<<200, 112, 25, 22, 3, 15>>)
    /\ power_state = STATE_ON /\ active_source_id = Some(25)

\* C19: a line with a character that is no hex digit is dropped: the call
\* that takes it alone changes neither the device name, the power state,
\* the mute flag, the active source, the input mode, the prefix nor the
\* catalog, and when a status frame follows it in the same backlog both
\* lines are taken and the status frame takes effect.
C19_NonHexDropped ==
    [][\A l \in NonHexLines :
        /\ (FeedOf(l \o <<LF>>) /\ response_buffer = << >>) =>
              <<device_name, power_state, muted, active_source_id, input_mode,
                device_command_prefix, available_sources>>' =
              <<device_name, power_state, muted, active_source_id, input_mode,
                device_command_prefix, available_sources>>
        /\ (FeedOf(l \o <<LF>> \o Line(FrameStatusTuner)) /\ response_buffer = << >>) =>
              /\ last'.frames = <<l, HexText(FrameStatusTuner)>>
              /\ power_state' = STATE_OFF /\ muted' = FALSE
              /\ active_source_id' = Some(0)
              /\ <<device_name, input_mode, device_command_prefix, available_sources>>' =
                 <<device_name, input_mode, device_command_prefix, available_sources>>
              /\ response_buffer' = << >>]_vars

\* the fields a status frame does not set
NotStatus ==
    <<device_name, device_command_prefix, available_sources, input_mode, arduino>>

\* C20: a status frame of 6 bytes, under either marker, sets the power state
\* to on if bit 0 of byte 4 is set and to off if not, the mute flag to bit 1
\* of byte 4 and the active source id to byte 2, and changes nothing else; a
\* status frame of another length changes nothing, so the three keep their
\* values.
C20_StatusFrame ==
    [][ /\ \A f \in StatusFrames : Dispatches(f) =>
              /\ power_state' = IF f[5] % 2 = 1 THEN "on" ELSE "off"
              /\ muted' = ((f[5] \div 2) % 2 = 1)
              /\ active_source_id' = Some(f[3])
              /\ NotStatus' = NotStatus /\ response_buffer' = << >>
              /\ last'.outcome = "returned"
        /\ \A f \in ShortStatusFrames : Dispatches(f) =>
              /\ <<power_state, muted, active_source_id>>' =
                 <<power_state, muted, active_source_id>>
              /\ NotStatus' = NotStatus /\ response_buffer' = << >>
              /\ last'.outcome = "returned" ]_vars
\* a status frame of 5 bytes has been dispatched after one of 6 bytes had
\* set the power state, the mute flag and the active source
C20_Witness ==
    /\ last.op = "_read_sony_response"
    /\ last.arg = Some(Line(<<120, 112, 25, 22, 3>>))
    /\ power_state = "off" /\ muted /\ active_source_id = Some(0)

\* the fields an input-mode frame does not set
NotMode ==
    <<device_name, device_command_prefix, power_state, muted, active_source_id,
      available_sources>>

\* C21: an input-mode frame of 4 bytes with the code 0, 1, 2 or 4 sets the
\* input mode to auto, optical, coaxial or analog and nothing else; one with
\* another code changes no field, leaves the link open, and the read that
\* dispatched it returns to the operation, whose commands go on.
C21_InputModeFrame ==
    [][\A f \in ModeFrames : Dispatches(f) =>
        /\ NotMode' = NotMode /\ arduino' /\ response_buffer' = << >>
        /\ input_mode' = CASE f[3] = 0 -> Some("auto")
                           [] f[3] = 1 -> Some("optical")
                           [] f[3] = 2 -> Some("coaxial")
                           [] f[3] = 4 -> Some("analog")
                           [] OTHER -> input_mode
        /\ last'.outcome = "returned"]_vars

\* C23: whenever the lock is free (no public operation is under way) the
\* backlog holds no line terminator: every complete line that was read has
\* been taken out and dispatched by the operation that read it, none is left
\* for a later operation.
C23_NoLineLeftOver ==
    lock = NoThread => \A i \in DOMAIN response_buffer : response_buffer[i] # LF

\* C22: the lock is free exactly when no thread runs the body of a public
\* operation: a body that ends, by return or by an exception, releases it,
\* and the lock is only ever taken when it is free; so, under fair
\* scheduling, a thread that has called an operation gets the lock, and the
\* operation it runs comes to its end.
C22_LockReleasedAndGranted ==
    /\ [](lock = NoThread <=> Running = {})
    /\ [][/\ \A t \in Threads : pc[t] = "running" /\ pc'[t] = "idle"
                                   => lock = t /\ lock' = NoThread
          /\ lock' \notin {lock, NoThread} => lock = NoThread]_vars
    /\ \A t \in Threads : /\ pc[t] = "waiting" ~> pc[t] = "running"
                          /\ pc[t] = "running" ~> pc[t] = "idle"

\* an operation has ended with an exception, the lock is free and another
\* thread is waiting for it
C22_Witness ==
    /\ last.outcome = "raised" /\ lock = NoThread
    /\ \E u \in Threads : u # last.by /\ pc[u] = "waiting"

====
